---- MODULE Spec2Model ----
(***************************************************************************)
(* A model of tweet_bot.py: one run of main() (credential gate, trend      *)
(* fetch, text generation over shuffled backends, formatting, publishing   *)
(* with retry), and of ContentFormatter.format_tweet as a pure function.   *)
(*                                                                         *)
(* A Python str is a sequence of characters; a character is a one-element  *)
(* TLA+ string.  A character outside ASCII is written by name between      *)
(* angle brackets ("<fire>" is U+1F525, "<ellipsis>" is U+2026): each is   *)
(* one code point, hence one element, as in Python.                        *)
(***************************************************************************)
EXTENDS Integers, Sequences, FiniteSets, TLC

(***************************************************************************)
(* Characters and the classes the code tests them against.                 *)
(***************************************************************************)
LowerSeq ==
    <<"a","b","c","d","e","f","g","h","i","j","k","l","m",
      "n","o","p","q","r","s","t","u","v","w","x","y","z">>

UpperSeq ==
    <<"A","B","C","D","E","F","G","H","I","J","K","L","M",
      "N","O","P","Q","R","S","T","U","V","W","X","Y","Z">>

DigitSeq ==
    <<"0","1","2","3","4","5","6","7","8","9">>

Range(s) == {s[i] : i \in 1..Len(s)}

Letters == Range(LowerSeq) \cup Range(UpperSeq)

Digits == Range(DigitSeq)

\* str.isalnum() of one character
IsAlnum(c) == c \in Letters \/ c \in Digits

\* the regex class \w
IsWord(c) == IsAlnum(c) \/ c = "_"

\* the regex class \s, and the characters str.split() and str.strip() drop
IsSpace(c) == c \in {" ", "\n", "\t"}

\* str.isalpha(): non-empty and every character a letter
IsAlpha(s) == Len(s) > 0 /\ \A i \in 1..Len(s) : s[i] \in Letters

\* str.isdigit(): non-empty and every character a digit
IsDigit(s) == Len(s) > 0 /\ \A i \in 1..Len(s) : s[i] \in Digits

\* case folding of one character, as re.IGNORECASE compares
ToLower(c) ==
    IF c \in Range(UpperSeq)
    THEN LowerSeq[CHOOSE i \in 1..Len(UpperSeq) : UpperSeq[i] = c]
    ELSE c

(***************************************************************************)
(* String primitives of Python, computed as Python computes them.          *)
(***************************************************************************)
\* s[i:] with a 1-based i
Drop(s, i) == SubSeq(s, i, Len(s))

\* s[:n]
Take(s, n) == SubSeq(s, 1, IF n < Len(s) THEN n ELSE Len(s))

\* p occurs in s at position i
StartsAt(s, p, i) ==
    /\ i >= 1
    /\ i + Len(p) - 1 <= Len(s)
    /\ \A k \in 1..Len(p) : s[i + k - 1] = p[k]

\* p in s
Contains(s, p) == \E i \in 1..(Len(s) - Len(p) + 1) : StartsAt(s, p, i)

\* str.startswith
StartsWith(s, p) == StartsAt(s, p, 1)

\* the least element of a non-empty set of integers
Min(S) == CHOOSE i \in S : \A j \in S : i <= j

\* the greatest element of a non-empty set of integers
Max(S) == CHOOSE i \in S : \A j \in S : j <= i

\* s.replace(old, new) for a non-empty old: leftmost occurrences, not
\* overlapping, the result is not scanned again
RECURSIVE ReplaceFrom(_, _, _, _)
ReplaceFrom(s, old, new, i) ==
    LET hits == {j \in i..Len(s) : StartsAt(s, old, j)}
    IN  IF hits = {} THEN Drop(s, i)
        ELSE SubSeq(s, i, Min(hits) - 1) \o new
             \o ReplaceFrom(s, old, new, Min(hits) + Len(old))

Replace(s, old, new) == ReplaceFrom(s, old, new, 1)

\* s.strip()
Strip(s) ==
    LET keep == {i \in 1..Len(s) : ~IsSpace(s[i])}
    IN  IF keep = {} THEN <<>>
        ELSE SubSeq(s, Min(keep), Max(keep))

\* membership of a character in a regex class: \s, \S or \w
InClass(c, cls) ==
    CASE cls = "s" -> IsSpace(c)
      [] cls = "S" -> ~IsSpace(c)
      [] cls = "w" -> IsWord(c)

\* the end (exclusive) of the longest run from i of characters in the class
RunEnd(s, i, cls) ==
    LET stops == {j \in i..Len(s) : ~InClass(s[j], cls)}
    IN  IF stops = {} THEN (IF i > Len(s) THEN i ELSE Len(s) + 1) ELSE Min(stops)

\* s.split(): the maximal runs of non-whitespace, in order
Split(s) ==
    LET starts == {i \in 1..Len(s) :
                      ~IsSpace(s[i]) /\ (i = 1 \/ IsSpace(s[i - 1]))}
        nth(k) == CHOOSE i \in starts : Cardinality({j \in starts : j <= i}) = k
    IN  [k \in 1..Cardinality(starts) |->
            SubSeq(s, nth(k), RunEnd(s, nth(k), "S") - 1)]

\* sep.join(words)
RECURSIVE Join(_, _)
Join(words, sep) ==
    IF Len(words) = 0 THEN <<>>
    ELSE IF Len(words) = 1 THEN words[1]
         ELSE words[1] \o sep \o Join(Tail(words), sep)

\* list(dict.fromkeys(xs)): first occurrences, in order
RECURSIVE Dedup(_)
Dedup(xs) ==
    IF Len(xs) = 0 THEN <<>>
    ELSE LET init == Dedup(SubSeq(xs, 1, Len(xs) - 1))
             last == xs[Len(xs)]
         IN  IF last \in Range(init) THEN init ELSE Append(init, last)

\* str(n) of a natural number
RECURSIVE IntToStr(_)
IntToStr(n) ==
    IF n < 10 THEN <<DigitSeq[n + 1]>>
    ELSE IntToStr(n \div 10) \o <<DigitSeq[(n % 10) + 1]>>

\* s.rsplit(' ', 1)[0]: the part before the last space, or all of s
RSplitHead(s) ==
    LET sp == {i \in 1..Len(s) : s[i] = " "}
    IN  IF sp = {} THEN s
        ELSE SubSeq(s, 1, Max(sp) - 1)

(***************************************************************************)
(* BotConfig.                                                              *)
(***************************************************************************)
MODEL_ENDPOINTS ==
    <<"HuggingFaceH4/zephyr-7b-beta",
      "mistralai/Mixtral-8x7B-Instruct-v0.1",
      "google/gemma-7b-it">>

\* a template is a sequence of literal characters and replacement fields
FALLBACK_TWEETS ==
    <<
    <<"<globe>"," ","{trend}"," ","m","a","t","t","e","r","s","!"," ",
      "J","o","i","n"," ","t","h","e"," ",
      "d","i","s","c","u","s","s","i","o","n","."," ","#","{trend_clean}">>,
    <<"<bulb>"," ","W","h","a","t","'","s"," ","y","o","u","r"," ",
      "t","a","k","e"," ","o","n"," ","{trend}","?"," ",
      "L","e","t","'","s"," ","t","a","l","k","."," ","#","{trend_clean}">>,
    <<"<handshake>"," ","A","l","i","g","n"," ","w","i","t","h"," ","{trend}"," ",
      "a","d","v","o","c","a","t","e","s","."," ",
      "S","h","a","r","e"," ","y","o","u","r"," ","v","i","e","w","."," ",
      "#","{trend_clean}">>
    >>

REQUIRED_VARS ==
    <<"TWITTER_API_KEY", "TWITTER_API_SECRET",
      "TWITTER_ACCESS_TOKEN", "TWITTER_ACCESS_SECRET",
      "HUGGINGFACE_API_TOKEN">>

banned_phrases ==
    <<
    <<"b","l","o","w","n"," ","a","w","a","y">>,
    <<"b","r","e","a","k","i","n","g"," ","n","e","w","s">>,
    <<"e","x","p","o","s","e","d">>,
    <<"l","e","a","k","e","d">>,
    <<"<siren>">>,
    <<"<scream>">>,
    <<"<bomb>">>,
    <<"<fire>">>,
    <<"<siren>">>,
    <<"<boom>">>,
    <<"V","i","r","a","l","F","o","r","C","h","a","n","g","e">>,
    <<"J","o","i","n"," ","m","e">>,
    <<"C","h","e","c","k"," ","o","u","t">>,
    <<"P","u","r","c","h","a","s","e">>,
    <<"C","l","i","c","k"," ","h","e","r","e">>,
    <<"T","h","e"," ","t","w","e","e","t"," ","s","t","a","r","t","s"," ",
      "w","i","t","h">>
    >>

allowed_emojis ==
    <<"<chart>", "<mag>", "<bulb>", "<globe>", "<speech>", "<star>", "<rocket>">>

RATE_LIMIT_BACKOFF == 300

MAX_RETRIES == 5

(***************************************************************************)
(* ContentFormatter.format_tweet, step by step.                            *)
(***************************************************************************)
\* datetime.now().year: the calendar year of the run
current_year == 2026

\* re.sub(r'^The tweet starts with.*?\.\s*', '', s, flags=re.IGNORECASE):
\* the prefix in any case at the very start, the shortest stretch up to a
\* full stop, and the whitespace after it
MetaPrefix ==
    <<"t","h","e"," ","t","w","e","e","t"," ","s","t","a","r","t","s"," ",
      "w","i","t","h">>

StripMeta(s) ==
    LET n == Len(MetaPrefix)
        head == n <= Len(s) /\ \A k \in 1..n : ToLower(s[k]) = MetaPrefix[k]
        dots == {i \in (n + 1)..Len(s) : s[i] = "."}
    IN  IF head /\ dots # {}
        THEN Drop(s, RunEnd(s, Min(dots) + 1, "s"))
        ELSE s

\* for phrase in banned_phrases: s = s.replace(phrase, ""), one phrase after
\* the other in list order
RECURSIVE RemoveBanned(_, _)
RemoveBanned(s, k) ==
    IF k > Len(banned_phrases) THEN s
    ELSE RemoveBanned(Replace(s, banned_phrases[k], <<>>), k + 1)

\* the length of a match of (https?://\S+|pic\.twitter\.com/\S+) at i, or 0
UrlMatchLen(s, i) ==
    LET http == <<"h","t","t","p">>
        sep  == <<":","/","/">>
        pic  == <<"p","i","c",".","t","w","i","t","t","e","r",".","c","o","m","/">>
        a == IF StartsAt(s, http \o <<"s">> \o sep, i) THEN i + 8
             ELSE IF StartsAt(s, http \o sep, i) THEN i + 7
             ELSE 0
        b == IF StartsAt(s, pic, i) THEN i + Len(pic) ELSE 0
    IN  IF a > 0 /\ RunEnd(s, a, "S") > a THEN RunEnd(s, a, "S") - i
        ELSE IF b > 0 /\ RunEnd(s, b, "S") > b THEN RunEnd(s, b, "S") - i
        ELSE 0

\* re.sub(r'(https?://\S+|pic\.twitter\.com/\S+)', '', s)
RECURSIVE RemoveUrls(_, _)
RemoveUrls(s, i) ==
    LET hits == {j \in i..Len(s) : UrlMatchLen(s, j) > 0}
    IN  IF hits = {} THEN Drop(s, i)
        ELSE SubSeq(s, i, Min(hits) - 1)
             \o RemoveUrls(s, Min(hits) + UrlMatchLen(s, Min(hits)))

\* a word boundary \b between positions i-1 and i
Boundary(s, i) ==
    LET before == i > 1 /\ i - 1 <= Len(s) /\ IsWord(s[i - 1])
        after  == i >= 1 /\ i <= Len(s) /\ IsWord(s[i])
    IN  before # after

\* \b(20\d{2})\b matches at i
YearAt(s, i) ==
    /\ i + 3 <= Len(s)
    /\ s[i] = "2" /\ s[i + 1] = "0"
    /\ s[i + 2] \in Digits /\ s[i + 3] \in Digits
    /\ Boundary(s, i) /\ Boundary(s, i + 4)

\* re.sub(r'\b(20\d{2})\b', str(current_year), s)
RECURSIVE NormalizeYears(_, _)
NormalizeYears(s, i) ==
    LET hits == {j \in i..Len(s) : YearAt(s, j)}
    IN  IF hits = {} THEN Drop(s, i)
        ELSE SubSeq(s, i, Min(hits) - 1) \o IntToStr(current_year)
             \o NormalizeYears(s, Min(hits) + 4)

\* [word for word in s.split() if word.startswith("#")]
ExistingTags(s) == SelectSeq(Split(s), LAMBDA w : StartsWith(w, <<"#">>))

\* the length of a match of (\s+)(#(\w+)) at i, or 0
TagMatchLen(s, i) ==
    LET j == RunEnd(s, i, "s")
    IN  IF /\ j > i
           /\ j + 1 <= Len(s)
           /\ s[j] = "#"
           /\ IsWord(s[j + 1])
        THEN RunEnd(s, j + 1, "w") - i
        ELSE 0

\* re.sub(r'(\s+)(#(\w+))', '', s)
RECURSIVE RemoveTags(_, _)
RemoveTags(s, i) ==
    LET hits == {j \in i..Len(s) : TagMatchLen(s, j) > 0}
    IN  IF hits = {} THEN Drop(s, i)
        ELSE SubSeq(s, i, Min(hits) - 1)
             \o RemoveTags(s, Min(hits) + TagMatchLen(s, Min(hits)))

\* c in allowed_emojis or c.isalnum() or c in ' #'
Allowed(c) == c \in Range(allowed_emojis) \/ IsAlnum(c) \/ c \in {" ", "#"}

\* ''.join(c for c in s if ...)
SafeChars(s) == SelectSeq(s, Allowed)

\* Truncate cutting at the limit itself: s[:280] + the ellipsis
TruncateAtLimit(s) ==
    IF Len(s) > 280 THEN Take(s, 280) \o <<"<ellipsis>">> ELSE s

\* if len(s) > 280: s = s[:250].rsplit(' ', 1)[0] + the ellipsis
Truncate(s) ==
    IF Len(s) > 280 THEN RSplitHead(Take(s, 250)) \o <<"<ellipsis>">> ELSE s

\* trend.replace(" ", "")
TrendClean(trend) == Replace(trend, <<" ">>, <<>>)

\* AllTags with the extracted hashtags put first: existing_tags + hashtags
AllTagsExtractedFirst(tagged, trend) ==
    LET hashtags == << <<"#">> \o TrendClean(trend),
                       <<"#">> \o TrendClean(trend) \o IntToStr(current_year) >>
    IN  Take(Dedup(ExistingTags(tagged) \o hashtags), 3)

\* the hashtags appended: the two of the trend, then those of the text,
\* without repetition, the first three
AllTags(tagged, trend) ==
    LET hashtags == << <<"#">> \o TrendClean(trend),
                       <<"#">> \o TrendClean(trend) \o IntToStr(current_year) >>
    IN  Take(Dedup(hashtags \o ExistingTags(tagged)), 3)

\* the text before the hashtags are cut out of it (lines 172-183)
Cleaned(raw_text) ==
    LET unquoted == Strip(Replace(Replace(raw_text, <<"\n">>, <<" ">>), <<"\"">>, <<>>))
        unbanned == RemoveBanned(StripMeta(unquoted), 1)
    IN  NormalizeYears(RemoveUrls(unbanned, 1), 1)

\* the text with its hashtags appended and its characters filtered, before
\* its length is looked at (lines 172-204)
Assembled(raw_text, trend) ==
    LET tagged == Cleaned(raw_text)
        body   == RemoveTags(tagged, 1)
        joined == body \o <<" ">> \o Join(AllTags(tagged, trend), <<" ">>)
    IN  SafeChars(joined)

format_tweet(raw_text, trend) == Strip(Truncate(Assembled(raw_text, trend)))

(***************************************************************************)
(* The state of one run.                                                   *)
(***************************************************************************)
VARIABLES
    pc,             \* where main() is: "start", "trends", "generate",
                    \* "generated", "post", "exited"; "format" and
                    \* "formatted" for format_tweet called on its own
    environ,        \* the required variables os.getenv finds set and non-empty
    missing,        \* the list _validate_credentials logs
    exit_code,      \* the process's exit code, -1 while it runs
    fetched,        \* the number of calls made to the trends service
    trends,         \* TrendAnalyzer.get_trends()
    selected_trend, \* random.choice(trends)
    order,          \* generate: random.sample(MODEL_ENDPOINTS, 3)
    idx,            \* generate: the position in order of the next candidate
    requested,      \* generate: the models a request was sent to, in order
    outcomes,       \* generate: what became of each of those requests
    last_response,  \* generate: the response to the last request
    raw_content,    \* generate's result: None, or <<text>>
    branch,         \* the branch of main that called post_tweet
    tweet_text,     \* the text given to post_tweet, or format_tweet's result
    attempt,        \* post_tweet: attempt
    clock,          \* int(time.time())
    submissions,    \* post_tweet: the outcome of each create_tweet call
    sleeps,         \* the durations time.sleep completed, in order
    post_result,    \* how post_tweet ended
    searches,       \* get_trends called on its own: what the trends service
                    \* answers
    post_calls      \* the number of calls main made to post_tweet

vars ==
    <<pc, environ, missing, exit_code, fetched, trends, selected_trend, order,
      idx, requested, outcomes, last_response, raw_content, branch, tweet_text,
      attempt, clock, submissions, sleeps, post_result,
                   searches, post_calls>>

\* Python's None for an Optional[str]; a str t is <<t>>
None == <<>>

Some(t) == <<t>>

\* "not x" for an Optional[str]: None and the empty str are falsy
Falsy(x) == x = None \/ x[1] = <<>>

(***************************************************************************)
(* TwitterClient._validate_credentials.                                    *)
(***************************************************************************)
\* MissingVars looking at the four Twitter variables only
MissingVarsTwitterOnly(env) ==
    SelectSeq(SubSeq(REQUIRED_VARS, 1, 4), LAMBDA v : v \notin env)

\* [var for var in REQUIRED_VARS if not os.getenv(var)]
MissingVars(env) == SelectSeq(REQUIRED_VARS, LAMBDA v : v \notin env)

(***************************************************************************)
(* TrendAnalyzer.get_trends.                                               *)
(***************************************************************************)
StaticTrends ==
    << <<"A","I">>,
       <<"C","l","i","m","a","t","e">>,
       <<"H","e","a","l","t","h","c","a","r","e">> >>

\* len(t) > 4 and not t.isdigit() and t.isalpha()
TrendOk(t) == Len(t) > 4 /\ ~IsDigit(t) /\ IsAlpha(t)

\* get_trends without the cut to five: return trends if trends else the list
get_trends_uncut(upstream) ==
    IF upstream.raised # "none" THEN StaticTrends
    ELSE LET kept == SelectSeq(upstream.titles, TrendOk)
         IN  IF Len(kept) > 0 THEN kept ELSE StaticTrends

\* the value returned for an upstream outcome: the call raised, or gave a list
get_trends(upstream) ==
    IF upstream.raised # "none" THEN StaticTrends
    ELSE LET kept == SelectSeq(upstream.titles, TrendOk)
         IN  IF Len(kept) > 0 THEN Take(kept, 5) ELSE StaticTrends

(***************************************************************************)
(* ContentGenerator.generate: one candidate.                               *)
(***************************************************************************)
\* what one pass of the loop body does with the response to its request:
\* "interrupt" (KeyboardInterrupt leaves generate), "skipped" (403, continue),
\* "failed" (an exception caught and logged, the loop goes on) or "returned"
Handle(r) ==
    IF r.raised = "KeyboardInterrupt" THEN [does |-> "interrupt", text |-> <<>>]
    ELSE IF r.raised # "none" THEN [does |-> "failed", text |-> <<>>]
    ELSE IF r.status = 403 THEN [does |-> "skipped", text |-> <<>>]
    \* raise_for_status()
    ELSE IF r.status >= 400 THEN [does |-> "failed", text |-> <<>>]
    \* response.json()
    ELSE IF r.body.form = "invalid" THEN [does |-> "failed", text |-> <<>>]
    \* result[0] of a JSON object (KeyError) or of an empty list (IndexError)
    ELSE IF r.body.form = "object" \/ Len(r.body.items) = 0
         THEN [does |-> "failed", text |-> <<>>]
    \* .get("generated_text", "").strip()
    ELSE IF r.body.items[1].field = "missing" THEN [does |-> "returned", text |-> <<>>]
    ELSE IF r.body.items[1].field = "null" THEN [does |-> "failed", text |-> <<>>]
    ELSE [does |-> "returned", text |-> Strip(r.body.items[1].text)]

(***************************************************************************)
(* main: the fallback text.                                                *)
(***************************************************************************)
\* template.format(trend=..., trend_clean=...)
RECURSIVE FormatFrom(_, _, _, _)
FormatFrom(tpl, trend, trend_clean, i) ==
    LET fields == {j \in i..Len(tpl) : tpl[j] \in {"{trend}", "{trend_clean}"}}
    IN  IF fields = {} THEN Drop(tpl, i)
        ELSE SubSeq(tpl, i, Min(fields) - 1)
             \o (IF tpl[Min(fields)] = "{trend}" THEN trend ELSE trend_clean)
             \o FormatFrom(tpl, trend, trend_clean, Min(fields) + 1)

Format(tpl, trend, trend_clean) == FormatFrom(tpl, trend, trend_clean, 1)

\* Content with the fallback text passed through format_tweet as well
ContentFormatsFallback(raw, trend, pick) ==
    IF Falsy(raw)
    THEN [branch |-> "fallback",
          text |-> format_tweet(
                      Format(FALLBACK_TWEETS[pick], trend, TrendClean(trend)), trend)]
    ELSE [branch |-> "formatted", text |-> format_tweet(raw[1], trend)]

\* the text main gives to post_tweet, and the branch it takes (lines 226-238);
\* pick is random.choice's index into FALLBACK_TWEETS
Content(raw, trend, pick) ==
    IF Falsy(raw)
    THEN [branch |-> "fallback",
          text |-> Format(FALLBACK_TWEETS[pick], trend, TrendClean(trend))]
    ELSE [branch |-> "formatted", text |-> format_tweet(raw[1], trend)]

(***************************************************************************)
(* TwitterClient._handle_rate_limit.                                       *)
(***************************************************************************)
\* RateLimitWait without the floor: wait = reset - int(time.time())
RateLimitWaitUnfloored(header, now) ==
    LET reset == IF header = <<>> THEN now + 300 ELSE header[1]
    IN  reset - now

\* the x-rate-limit-reset header is absent (<<>>) or carries an epoch second
\* (<<n>>); now is both readings of time.time(), taken within one second
RateLimitWait(header, now) ==
    LET reset == IF header = <<>> THEN now + 300 ELSE header[1]
    IN  IF reset - now > 0 THEN reset - now ELSE 0

(***************************************************************************)
(* TwitterClient.post_tweet: one pass of the loop body.                    *)
(***************************************************************************)
\* post_attempt with a Forbidden answer handled like a rate limit without a
\* wait: the loop goes on
post_attempt_retry_forbidden(r, now, interrupted) ==
    CASE r.kind = "created" -> [ends |-> "posted", slept |-> <<>>]
      [] r.kind = "TooManyRequests" ->
            IF interrupted THEN [ends |-> "interrupted", slept |-> <<>>]
            ELSE [ends |-> "no", slept |-> <<RateLimitWait(r.header, now)>>]
      [] r.kind = "Forbidden" -> [ends |-> "no", slept |-> <<>>]
      [] r.kind = "Exception" -> [ends |-> "failed", slept |-> <<>>]
      [] r.kind = "KeyboardInterrupt" -> [ends |-> "interrupted", slept |-> <<>>]

\* post_attempt giving up, without sleeping, when the wait is over
\* RATE_LIMIT_BACKOFF
post_attempt_ceiling(r, now, interrupted) ==
    CASE r.kind = "created" -> [ends |-> "posted", slept |-> <<>>]
      [] r.kind = "TooManyRequests" ->
            IF RateLimitWait(r.header, now) > RATE_LIMIT_BACKOFF
            THEN [ends |-> "failed", slept |-> <<>>]
            ELSE IF interrupted THEN [ends |-> "interrupted", slept |-> <<>>]
            ELSE [ends |-> "no", slept |-> <<RateLimitWait(r.header, now)>>]
      [] r.kind = "Forbidden" -> [ends |-> "rejected", slept |-> <<>>]
      [] r.kind = "Exception" -> [ends |-> "failed", slept |-> <<>>]
      [] r.kind = "KeyboardInterrupt" -> [ends |-> "interrupted", slept |-> <<>>]

\* post_attempt without the return True of line 88: the loop goes on after a
\* post was created
post_attempt_resubmits(r, now, interrupted) ==
    CASE r.kind = "created" -> [ends |-> "no", slept |-> <<>>]
      [] r.kind = "TooManyRequests" ->
            IF interrupted THEN [ends |-> "interrupted", slept |-> <<>>]
            ELSE [ends |-> "no", slept |-> <<RateLimitWait(r.header, now)>>]
      [] r.kind = "Forbidden" -> [ends |-> "rejected", slept |-> <<>>]
      [] r.kind = "Exception" -> [ends |-> "failed", slept |-> <<>>]
      [] r.kind = "KeyboardInterrupt" -> [ends |-> "interrupted", slept |-> <<>>]

\* post_attempt with the other exceptions backed off and tried again: a sleep
\* of a second, and the loop goes on
post_attempt_backoff_errors(r, now, interrupted) ==
    CASE r.kind = "created" -> [ends |-> "posted", slept |-> <<>>]
      [] r.kind = "TooManyRequests" ->
            IF interrupted THEN [ends |-> "interrupted", slept |-> <<>>]
            ELSE [ends |-> "no", slept |-> <<RateLimitWait(r.header, now)>>]
      [] r.kind = "Forbidden" -> [ends |-> "rejected", slept |-> <<>>]
      [] r.kind = "Exception" -> [ends |-> "no", slept |-> <<1>>]
      [] r.kind = "KeyboardInterrupt" -> [ends |-> "interrupted", slept |-> <<>>]

\* what the pass does with the outcome r of create_tweet at time now: how it
\* ends post_tweet ("no" when the loop goes on) and the sleep it completed.
\* interrupted: a KeyboardInterrupt arrives during time.sleep
post_attempt(r, now, interrupted) ==
    CASE r.kind = "created" -> [ends |-> "posted", slept |-> <<>>]
      [] r.kind = "TooManyRequests" ->
            IF interrupted THEN [ends |-> "interrupted", slept |-> <<>>]
            ELSE [ends |-> "no", slept |-> <<RateLimitWait(r.header, now)>>]
      [] r.kind = "Forbidden" -> [ends |-> "rejected", slept |-> <<>>]
      [] r.kind = "Exception" -> [ends |-> "failed", slept |-> <<>>]
      [] r.kind = "KeyboardInterrupt" -> [ends |-> "interrupted", slept |-> <<>>]

\* NextAttempt with the increment skipped after a rate limit
NextAttemptFreeRetry(a, r) == IF r.kind = "TooManyRequests" THEN a ELSE a + 1

\* finally: attempt += 1
NextAttempt(a, r) == a + 1

\* while attempt < MAX_RETRIES: the loop is left after the pass that made
\* attempt a
LoopOver(a) == ~(a < MAX_RETRIES)

(***************************************************************************)
(* generate's for loop and main's exits.                                   *)
(***************************************************************************)
\* Exhausted with the last model left out
ExhaustedEarly(i, models) == i + 1 >= Len(models)

\* the for loop over the shuffled models ends after the pass at position i
Exhausted(i, models) == i + 1 > Len(models)

\* main_exit without the except KeyboardInterrupt clause doing sys.exit(0)
main_exit_interrupt_fails(how) ==
    CASE how = "return" -> 0
      [] how = "SystemExit" -> 1
      [] how = "KeyboardInterrupt" -> 1
      [] how = "Exception" -> 1

\* the exit code of the process for the way main() is left: by returning, or
\* by SystemExit(1), KeyboardInterrupt or another exception reaching its
\* except clauses (lines 240-245)
main_exit(how) ==
    CASE how = "return" -> 0
      [] how = "SystemExit" -> 1
      [] how = "KeyboardInterrupt" -> 0
      [] how = "Exception" -> 1

(***************************************************************************)
(* What the services outside the program may answer.                       *)
(***************************************************************************)
\* the trends service: the call raises, or df[0].tolist() is one of these
UpstreamTitles ==
    { <<>>,
      << <<"1","2","3","4","5">>, <<"N","B","A">>, <<"S","p"," ","a","c","e">> >>,
      << <<"O","l","y","m","p","i","c","s">>, <<"1","2","3","4","5">>,
         <<"S","p","a","c","e">> >>,
      << <<"A","l","p","h","a">>, <<"B","r","a","v","o">>, <<"D","e","l","t","a">>,
         <<"H","o","t","e","l">>, <<"I","n","d","i","a">>, <<"K","i","l","o","s">> >> }

Upstreams ==
    {[raised |-> e, titles |-> <<>>] : e \in {"Exception", "KeyboardInterrupt"}}
    \cup {[raised |-> "none", titles |-> l] : l \in UpstreamTitles}

\* no call of get_trends on its own is under way
NoUpstream == [raised |-> "none", titles |-> <<>>]

\* the generated_text values a backend may answer with
GeneratedTexts ==
    { <<" ","I","s"," ","i","t"," ","2","0","2","3","?"," ","#","n","o","w"," ">>,
      <<" ","\n"," ">>,
      <<"e","x","p","o","l","e","a","k","e","d","s","e","d">> }

NoBody == [form |-> "none", items |-> <<>>]

\* the JSON bodies of a 200 response
Bodies ==
    { [form |-> "invalid", items |-> <<>>],
      [form |-> "object", items |-> <<>>],
      [form |-> "list", items |-> <<>>],
      [form |-> "list", items |-> <<[field |-> "missing", text |-> <<>>]>>],
      [form |-> "list", items |-> <<[field |-> "null", text |-> <<>>]>>] }
    \cup {[form |-> "list", items |-> <<[field |-> "str", text |-> t]>>] :
             t \in GeneratedTexts}

\* requests.post raises, or answers with a status and, for 200, a body
Responses ==
    {[raised |-> e, status |-> 0, body |-> NoBody] :
        e \in {"Timeout", "KeyboardInterrupt"}}
    \cup {[raised |-> "none", status |-> st, body |-> NoBody] : st \in {403, 404, 503}}
    \cup {[raised |-> "none", status |-> 200, body |-> b] : b \in Bodies}

NoResponse == [raised |-> "none", status |-> 0, body |-> NoBody]

\* x-rate-limit-reset minus the time of the response, when the header is there
ResetOffsets == {-5, 120, 301}

\* the outcomes of create_tweet at time now
PostResponses(now) ==
    {[kind |-> k, header |-> <<>>, at |-> now] :
        k \in {"created", "TooManyRequests", "Forbidden", "Exception",
               "KeyboardInterrupt"}}
    \cup {[kind |-> "TooManyRequests", header |-> <<now + off>>, at |-> now] :
             off \in ResetOffsets}

\* the orders of a draw with replacement, random.choices(MODEL_ENDPOINTS, k=3)
ShufflesWithRepeats == [1..Len(MODEL_ENDPOINTS) -> Range(MODEL_ENDPOINTS)]

\* the orders random.sample(MODEL_ENDPOINTS, 3) may give
Shuffles ==
    {o \in [1..Len(MODEL_ENDPOINTS) -> Range(MODEL_ENDPOINTS)] :
        \A i, j \in 1..Len(MODEL_ENDPOINTS) : i # j => o[i] # o[j]}

(***************************************************************************)
(* One run of main().                                                      *)
(***************************************************************************)
Init ==
    /\ pc = "start"
    /\ environ \in SUBSET Range(REQUIRED_VARS)
    /\ missing = <<>>
    /\ exit_code = -1
    /\ fetched = 0
    /\ trends = <<>>
    /\ selected_trend = <<>>
    /\ order = <<>>
    /\ idx = 0
    /\ requested = <<>>
    /\ outcomes = <<>>
    /\ last_response = NoResponse
    /\ raw_content = None
    /\ branch = "none"
    /\ tweet_text = <<>>
    /\ attempt = 0
    /\ clock = 1000
    /\ submissions = <<>>
    /\ sleeps = <<>>
    /\ post_result = "none"
    /\ searches = NoUpstream
    /\ post_calls = 0

\* client = TwitterClient(); generator = ContentGenerator()
\* (tweepy.Client(...) only stores its arguments)
Validate ==
    /\ pc = "start"
    /\ missing' = MissingVars(environ)
    /\ IF Len(missing') > 0 \/ "HUGGINGFACE_API_TOKEN" \notin environ
       THEN pc' = "exited" /\ exit_code' = main_exit("SystemExit")
       ELSE pc' = "trends" /\ exit_code' = exit_code
    /\ UNCHANGED <<environ, fetched, trends, selected_trend, order, idx, requested,
                   outcomes, last_response, raw_content, branch, tweet_text,
                   attempt, clock, submissions, sleeps, post_result,
                   searches, post_calls>>

\* trends = get_trends(); selected_trend = random.choice(trends); the prompt;
\* generate() up to its first request
GetTrends ==
    /\ pc = "trends"
    /\ fetched' = fetched + 1
    /\ \E up \in Upstreams :
          IF up.raised = "KeyboardInterrupt"
          THEN /\ pc' = "exited" /\ exit_code' = main_exit("KeyboardInterrupt")
               /\ UNCHANGED <<trends, selected_trend, order, idx>>
          ELSE /\ trends' = get_trends(up)
               /\ selected_trend' \in Range(trends')
               /\ order' \in Shuffles
               /\ idx' = 1
               /\ pc' = "generate" /\ exit_code' = exit_code
    /\ UNCHANGED <<environ, missing, requested, outcomes, last_response,
                   raw_content, branch, tweet_text, attempt, clock, submissions,
                   sleeps, post_result,
                   searches, post_calls>>

\* one pass of generate's loop, and its return when the pass ends it
GenerateStep ==
    /\ pc = "generate"
    /\ idx <= Len(order)
    /\ \E r \in Responses :
          LET h == Handle(r)
          IN  /\ requested' = Append(requested, order[idx])
              /\ last_response' = r
              /\ outcomes' = Append(outcomes, h.does)
              /\ idx' = idx + 1
              /\ CASE h.does = "interrupt" ->
                        /\ pc' = "exited"
                        /\ exit_code' = main_exit("KeyboardInterrupt")
                        /\ raw_content' = raw_content
                   [] h.does = "returned" ->
                        /\ pc' = "generated"
                        /\ exit_code' = exit_code
                        /\ raw_content' = Some(h.text)
                   [] OTHER ->
                        /\ pc' = IF Exhausted(idx, order) THEN "generated"
                                 ELSE "generate"
                        /\ exit_code' = exit_code
                        /\ raw_content' = None
    /\ UNCHANGED <<environ, missing, fetched, trends, selected_trend, order, branch,
                   tweet_text, attempt, clock, submissions, sleeps, post_result,
                   searches, post_calls>>

\* main from the return of generate to the call of post_tweet; the locals of
\* generate are gone
Dispatch ==
    /\ pc = "generated"
    /\ \E pick \in 1..Len(FALLBACK_TWEETS) :
          LET c == Content(raw_content, selected_trend, pick)
          IN  branch' = c.branch /\ tweet_text' = c.text
    /\ pc' = "post"
    /\ post_calls' = post_calls + 1
    /\ attempt' = 0
    /\ order' = <<>> /\ idx' = 0 /\ requested' = <<>> /\ outcomes' = <<>>
    /\ last_response' = NoResponse
    /\ UNCHANGED <<environ, missing, exit_code, fetched, trends, selected_trend,
                   raw_content, clock, submissions, sleeps, post_result,
                   searches>>

\* one pass of post_tweet's loop with its finally clause, and, when the pass
\* ends post_tweet, the return of main
PostStep ==
    /\ pc = "post"
    /\ attempt < MAX_RETRIES
    /\ \E r \in PostResponses(clock) :
       \E interrupted \in IF r.kind = "TooManyRequests" THEN BOOLEAN ELSE {FALSE} :
          LET o == post_attempt(r, clock, interrupted)
              over == o.ends # "no" \/ LoopOver(NextAttempt(attempt, r))
          IN  /\ submissions' = Append(submissions, r)
              /\ sleeps' = sleeps \o o.slept
              /\ clock' = IF Len(o.slept) > 0 THEN clock + o.slept[1] ELSE clock
              /\ attempt' = NextAttempt(attempt, r)
              /\ post_result' = IF o.ends # "no" THEN o.ends
                                ELSE IF over THEN "exhausted" ELSE "none"
              /\ pc' = IF over THEN "exited" ELSE "post"
              /\ exit_code' = IF ~over THEN exit_code
                               ELSE IF o.ends = "interrupted"
                                    THEN main_exit("KeyboardInterrupt")
                                    ELSE main_exit("return")
    /\ UNCHANGED <<environ, missing, fetched, trends, selected_trend, order, idx,
                   requested, outcomes, last_response, raw_content, branch,
                   tweet_text, searches, post_calls>>

Next ==
    \/ Validate
    \/ GetTrends
    \/ GenerateStep
    \/ Dispatch
    \/ PostStep

Spec == Init /\ [][Next]_vars

(***************************************************************************)
(* ContentFormatter.format_tweet called on its own: the raw text is made   *)
(* of at most MaxPieces pieces, the trend is one of FormatTrends.          *)
(***************************************************************************)
MaxPieces == 3

Pieces ==
    { <<"e","x","p","o">>,
      <<"l","e","a","k","e","d">>,
      <<"s","e","d">>,
      <<" ">>,
      <<"-">>,
      <<"#","a","i">>,
      <<"2","0","2","3">>,
      <<"h","t","t","p",":","/","/","t",".","c","o">> }

FormatTrends ==
    { <<"A","I">>,
      <<"S","p","a","c","e"," ","X">>,
      <<"e","x","p","o","s","e","d">> }

\* ''.join(pieces)
RECURSIVE Concat(_)
Concat(ps) == IF Len(ps) = 0 THEN <<>> ELSE ps[1] \o Concat(Tail(ps))

RawTexts ==
    UNION {{Concat(ps) : ps \in [1..n -> Pieces]} : n \in 0..MaxPieces}

\* the first n characters of unit repeated without end
Cyclic(unit, n) == [i \in 1..n |-> unit[((i - 1) % Len(unit)) + 1]]

\* texts around the length limit: with the hashtags of the trend "AI" a text
\* of 268 characters makes 280, one of 269 makes 281; without and with spaces
LongTexts ==
    {Cyclic(unit, n) : unit \in {<<"w">>, <<"a","b"," ">>}, n \in {268, 269, 300}}

InitFormat ==
    /\ pc = "format"
    /\ raw_content \in {Some(t) : t \in RawTexts \cup LongTexts}
    /\ selected_trend \in FormatTrends
    /\ environ = Range(REQUIRED_VARS)
    /\ missing = <<>>
    /\ exit_code = -1
    /\ fetched = 0
    /\ trends = <<>>
    /\ order = <<>>
    /\ idx = 0
    /\ requested = <<>>
    /\ outcomes = <<>>
    /\ last_response = NoResponse
    /\ branch = "none"
    /\ tweet_text = <<>>
    /\ attempt = 0
    /\ clock = 1000
    /\ submissions = <<>>
    /\ sleeps = <<>>
    /\ post_result = "none"
    /\ searches = NoUpstream
    /\ post_calls = 0

\* tweet_text = ContentFormatter.format_tweet(raw_content, selected_trend)
FormatCall ==
    /\ pc = "format"
    /\ tweet_text' = format_tweet(raw_content[1], selected_trend)
    /\ pc' = "formatted"
    /\ UNCHANGED <<environ, missing, exit_code, fetched, trends, selected_trend,
                   order, idx, requested, outcomes, last_response, raw_content,
                   branch, attempt, clock, submissions, sleeps, post_result,
                   searches, post_calls>>

NextFormat == FormatCall

SpecFormat == InitFormat /\ [][NextFormat]_vars

(***************************************************************************)
(* Properties of post_tweet.                                               *)
(***************************************************************************)
\* the wait the reset time of the i-th submission's answer asks for
AskedWait(i) == submissions[i].header[1] - submissions[i].at

\* C1: once create_tweet is answered with tweepy.Forbidden, on whichever
\* attempt, post_tweet is over: that submission is the last one, the run has
\* ended as rejected, and no sleep followed it (every sleep belongs to an
\* earlier, rate-limited submission and the clock stands where the answer
\* came).
C1_ForbiddenEndsPosting ==
    \A i \in 1..Len(submissions) :
        submissions[i].kind = "Forbidden" =>
            /\ i = Len(submissions)
            /\ pc = "exited"
            /\ post_result = "rejected"
            /\ Len(sleeps) = i - 1
            /\ clock = submissions[i].at

\* a run whose third submission was answered Forbidden
C1_Witness ==
    /\ Len(submissions) = 3
    /\ submissions[3].kind = "Forbidden"
    /\ pc = "exited"

\* C2: post_tweet makes at most MAX_RETRIES submissions: every submission,
\* rate-limited ones included, has used one attempt, the loop is only entered
\* with an attempt left, and after MAX_RETRIES rate-limited submissions
\* post_tweet has returned to main, which ends with exit code 0.
C2_BoundedAttempts ==
    /\ Len(submissions) = attempt
    /\ attempt <= MAX_RETRIES
    /\ pc = "post" => attempt < MAX_RETRIES
    /\ (/\ Len(submissions) = MAX_RETRIES
        /\ \A i \in 1..MAX_RETRIES : submissions[i].kind = "TooManyRequests"
        /\ Len(sleeps) = MAX_RETRIES)
       => (pc = "exited" /\ post_result = "exhausted" /\ exit_code = 0)

\* a run in which all five submissions were rate-limited
C2_Witness ==
    /\ Len(submissions) = MAX_RETRIES
    /\ \A i \in 1..MAX_RETRIES : submissions[i].kind = "TooManyRequests"
    /\ post_result = "exhausted"

\* C3 as claimed: a rate-limit answer whose wait exceeds RATE_LIMIT_BACKOFF
\* ends post_tweet: it is the last submission and no sleep was made for it.
C3_AbortsOverCeiling ==
    \A i \in 1..Len(submissions) :
        (/\ submissions[i].kind = "TooManyRequests"
         /\ submissions[i].header # <<>>
         /\ AskedWait(i) > RATE_LIMIT_BACKOFF)
        => (i = Len(submissions) /\ Len(sleeps) < i)

\* C3 as amended: a rate-limit answer whose wait exceeds RATE_LIMIT_BACKOFF
\* is slept out in full unless the sleep is interrupted, and after the sleep
\* post_tweet submits again while an attempt is left; RATE_LIMIT_BACKOFF
\* ends nothing.
C3_SleepsOverCeiling ==
    \A i \in 1..Len(submissions) :
        (/\ submissions[i].kind = "TooManyRequests"
         /\ submissions[i].header # <<>>
         /\ AskedWait(i) > RATE_LIMIT_BACKOFF)
        => \/ /\ post_result = "interrupted"
              /\ i = Len(submissions)
              /\ Len(sleeps) = i - 1
           \/ /\ Len(sleeps) >= i
              /\ sleeps[i] = AskedWait(i)
              /\ sleeps[i] > RATE_LIMIT_BACKOFF
              /\ IF i < MAX_RETRIES
                 THEN pc = "post" \/ Len(submissions) > i
                 ELSE post_result = "exhausted"

\* a wait of 301 s was slept and a further submission made after it
C3_Witness ==
    /\ Len(submissions) >= 2
    /\ submissions[1].kind = "TooManyRequests"
    /\ submissions[1].header # <<>>
    /\ AskedWait(1) > RATE_LIMIT_BACKOFF
    /\ sleeps[1] = 301
    /\ submissions[2].at = submissions[1].at + 301

\* C4: every completed sleep follows a rate-limited submission and is never
\* negative; when the answer carries a reset time the sleep lasts reset - now,
\* or 0 when the reset time is past; the next submission comes exactly that
\* long after; and a first submission rate-limited with a reset 120 s ahead
\* followed by a successful second one makes two submissions with one sleep
\* of 120 s between them.
C4_SleepsUntilReset ==
    /\ \A i \in 1..Len(sleeps) :
          /\ submissions[i].kind = "TooManyRequests"
          /\ sleeps[i] >= 0
          /\ submissions[i].header # <<>> =>
                sleeps[i] = IF AskedWait(i) > 0 THEN AskedWait(i) ELSE 0
          /\ i < Len(submissions) =>
                submissions[i + 1].at = submissions[i].at + sleeps[i]
    /\ (/\ Len(submissions) >= 2
        /\ submissions[1].kind = "TooManyRequests"
        /\ submissions[1].header = <<submissions[1].at + 120>>
        /\ submissions[2].kind = "created")
       => /\ Len(submissions) = 2
          /\ sleeps = <<120>>
          /\ submissions[2].at = submissions[1].at + 120
          /\ post_result = "posted"

\* the scenario: rate-limited with a reset 120 s ahead, then posted
C4_Witness ==
    /\ Len(submissions) = 2
    /\ submissions[1].kind = "TooManyRequests"
    /\ submissions[1].header = <<submissions[1].at + 120>>
    /\ submissions[2].kind = "created"
    /\ sleeps = <<120>>

(***************************************************************************)
(* Properties of generate and of main.                                     *)
(***************************************************************************)
\* C5: when generate has returned None, a request was sent to every model of
\* MODEL_ENDPOINTS, one each, and every one of them failed or was skipped for
\* a 403.
C5_NoneOnlyAfterAll ==
    (pc = "generated" /\ raw_content = None) =>
        /\ Len(requested) = Len(MODEL_ENDPOINTS)
        /\ Range(requested) = Range(MODEL_ENDPOINTS)
        /\ Len(outcomes) = Len(requested)
        /\ \A i \in 1..Len(outcomes) : outcomes[i] \in {"failed", "skipped"}

\* generate returned None after a 403 and failures of other kinds
C5_Witness ==
    /\ pc = "generated"
    /\ raw_content = None
    /\ "skipped" \in Range(outcomes)
    /\ "failed" \in Range(outcomes)

\* a failure of a candidate other than a 403, as the claim lists them: a
\* timeout, a 4xx/5xx status, a malformed payload, or a first element without
\* the generated_text field
OtherFailure(r) ==
    \/ r.raised = "Timeout"
    \/ r.raised = "none" /\ r.status >= 400 /\ r.status # 403
    \/ /\ r.raised = "none"
       /\ r.status = 200
       /\ \/ r.body.form \in {"invalid", "object"}
          \/ r.body.form = "list" /\ Len(r.body.items) = 0
          \/ r.body.form = "list" /\ Len(r.body.items) > 0
             /\ r.body.items[1].field \in {"missing", "null"}

\* C6: after a failure other than a 403, generate has not returned for that
\* candidate: the pass is recorded as failed, and generate goes on to the
\* next candidate if there is one.
C6_OtherFailuresContinue ==
    (/\ pc \in {"generate", "generated"}
     /\ Len(outcomes) > 0
     /\ OtherFailure(last_response))
    => /\ outcomes[Len(outcomes)] = "failed"
       /\ Len(requested) < Len(MODEL_ENDPOINTS) => pc = "generate"

\* the trend with its spaces removed
NoSpaces(t) == SelectSeq(t, LAMBDA c : c # " ")

\* the three fallback texts for a trend, written out
FallbackTexts(t) ==
    { <<"<globe>"," ">> \o t
         \o <<" ","m","a","t","t","e","r","s","!"," ","J","o","i","n"," ",
              "t","h","e"," ","d","i","s","c","u","s","s","i","o","n","."," ","#">>
         \o NoSpaces(t),
      <<"<bulb>"," ","W","h","a","t","'","s"," ","y","o","u","r"," ",
        "t","a","k","e"," ","o","n"," ">> \o t
         \o <<"?"," ","L","e","t","'","s"," ","t","a","l","k","."," ","#">>
         \o NoSpaces(t),
      <<"<handshake>"," ","A","l","i","g","n"," ","w","i","t","h"," ">> \o t
         \o <<" ","a","d","v","o","c","a","t","e","s","."," ","S","h","a","r","e",
              " ","y","o","u","r"," ","v","i","e","w","."," ","#">>
         \o NoSpaces(t) }

\* C7: when generate returned None (every backend failed), post_tweet was
\* called on the fallback branch, not on the formatted one, with one of the
\* three fallback templates in which {trend} is the selected trend and
\* {trend_clean} the trend without spaces, character for character (so not
\* passed through format_tweet, which would drop its punctuation).
C7_FallbackText ==
    (pc \in {"post", "exited"} /\ branch # "none" /\ raw_content = None) =>
        /\ branch = "fallback"
        /\ tweet_text \in FallbackTexts(selected_trend)

\* every backend failed and post_tweet was called with a fallback text
C7_Witness ==
    /\ pc = "post"
    /\ raw_content = None
    /\ branch = "fallback"
    /\ selected_trend = <<"S","p","a","c","e">>
    /\ Len(submissions) = 0

\* the required variables that are absent or empty
Absent == Range(REQUIRED_VARS) \ environ

\* C8: once the credentials were checked with one of the five variables
\* absent or empty, the process has ended with exit code 1, no call to the
\* trends service, no generation request and no submission was made, and the
\* list reported names each absent variable once and no other.
C8_MissingCredentialsExit ==
    (pc # "start" /\ Absent # {}) =>
        /\ pc = "exited"
        /\ exit_code = 1
        /\ fetched = 0
        /\ requested = <<>>
        /\ submissions = <<>>
        /\ sleeps = <<>>
        /\ Range(missing) = Absent
        /\ Len(missing) = Cardinality(Absent)

\* a run that ended for two absent variables, the generation token among them
C8_Witness ==
    /\ pc = "exited"
    /\ exit_code = 1
    /\ Absent = {"TWITTER_API_SECRET", "HUGGINGFACE_API_TOKEN"}
    /\ missing = <<"TWITTER_API_SECRET", "HUGGINGFACE_API_TOKEN">>

\* C9: the process has an exit code exactly when it has ended; the code is 1
\* only when a credential is missing and 0 in every other run, in particular
\* when post_tweet ended without publishing (rejected, failed on another
\* error, all attempts rate-limited) and when the user interrupted the run.
C9_ExitCodes ==
    /\ pc # "exited" => exit_code = -1
    /\ pc = "exited" => exit_code \in {0, 1}
    /\ exit_code = 1 => Absent # {}
    /\ (pc = "exited" /\ Absent = {}) => exit_code = 0
    /\ post_result \in {"rejected", "failed", "exhausted", "interrupted", "posted"}
          => (pc = "exited" /\ exit_code = 0)
    /\ (pc = "exited" /\ last_response.raised = "KeyboardInterrupt") => exit_code = 0

\* a run in which the post was rejected after a rate limit: nothing published
C9_Witness ==
    /\ pc = "exited"
    /\ post_result = "rejected"
    /\ Len(submissions) = 2
    /\ exit_code = 0

(***************************************************************************)
(* Properties of format_tweet.                                             *)
(***************************************************************************)
\* C10: the text format_tweet returns contains no banned phrase.
C10_NoBannedPhrase ==
    pc = "formatted" =>
        \A k \in 1..Len(banned_phrases) : ~Contains(tweet_text, banned_phrases[k])

\* the tokens of s, as str.split() cuts them, that begin with "#"
HashTokens(s) == SelectSeq(Split(s), LAMBDA w : StartsWith(w, <<"#">>))

\* C11: the text format_tweet returns has at most 3 tokens beginning with
\* "#", those left in the body counted with those appended.
C11_AtMostThreeHashtags ==
    pc = "formatted" => Len(HashTokens(tweet_text)) <= 3

\* format_tweet's text before the length limit is applied, for the inputs of
\* the call
AssembledNow == Assembled(raw_content[1], selected_trend)

\* C12: the text format_tweet returns is at most 280 characters long; when
\* the assembled text is longer than 280, the result is its first n
\* characters and one ellipsis (stripped of outer whitespace), where n <= 250
\* is the place of the last space among the first 250 characters, or 250 when
\* they hold no space.
C12_LengthLimit ==
    pc = "formatted" =>
        /\ Len(tweet_text) <= 280
        /\ \A a \in {AssembledNow} :
              Len(a) > 280 =>
                 \A spaces \in {{i \in 1..250 : a[i] = " "}} :
                    \E n \in 0..250 :
                       /\ IF spaces = {}
                          THEN n = 250
                          ELSE n + 1 \in spaces /\ \A i \in spaces : i <= n + 1
                       /\ tweet_text = Strip(SubSeq(a, 1, n) \o <<"<ellipsis>">>)

\* a text of 281 assembled characters with spaces, cut at a space
C12_Witness ==
    /\ pc = "formatted"
    /\ Len(raw_content[1]) = 269
    /\ selected_trend = <<"A","I">>
    /\ Len(tweet_text) > 200
    /\ Len(tweet_text) < 251
    /\ tweet_text[Len(tweet_text)] = "<ellipsis>"

(***************************************************************************)
(* TrendAnalyzer.get_trends called on its own, on every answer of the      *)
(* trends service up to MaxTitles titles.                                  *)
(***************************************************************************)
MaxTitles == 6

\* titles the service may list: two that pass the filter, one too short, one
\* of digits, one with a space
TrendTitles ==
    { <<"S","p","a","c","e">>, <<"A","l","p","h","a">>, <<"N","B","A">>,
      <<"1","2","3","4","5">>, <<"S","p","a","c","e"," ","X">> }

TrendAnswers ==
    {[raised |-> e, titles |-> <<>>] : e \in {"Exception", "KeyboardInterrupt"}}
    \cup {[raised |-> "none", titles |-> l] :
             l \in UNION {[1..n -> TrendTitles] : n \in 0..MaxTitles}}

InitTrends ==
    /\ pc = "get_trends"
    /\ searches \in TrendAnswers
    /\ environ = Range(REQUIRED_VARS)
    /\ missing = <<>>
    /\ exit_code = -1
    /\ fetched = 0
    /\ trends = <<>>
    /\ selected_trend = <<>>
    /\ order = <<>>
    /\ idx = 0
    /\ requested = <<>>
    /\ outcomes = <<>>
    /\ last_response = NoResponse
    /\ raw_content = None
    /\ branch = "none"
    /\ tweet_text = <<>>
    /\ attempt = 0
    /\ clock = 1000
    /\ submissions = <<>>
    /\ sleeps = <<>>
    /\ post_result = "none"
    /\ post_calls = 0

\* trends = TrendAnalyzer.get_trends(); except Exception does not catch a
\* KeyboardInterrupt, which leaves get_trends
TrendsCall ==
    /\ pc = "get_trends"
    /\ fetched' = fetched + 1
    /\ IF searches.raised = "KeyboardInterrupt"
       THEN pc' = "raised" /\ trends' = trends
       ELSE pc' = "got_trends" /\ trends' = get_trends(searches)
    /\ UNCHANGED <<environ, missing, exit_code, selected_trend, order, idx,
                   requested, outcomes, last_response, raw_content, branch,
                   tweet_text, attempt, clock, submissions, sleeps, post_result,
                   searches, post_calls>>

NextTrends == TrendsCall

SpecTrends == InitTrends /\ [][NextTrends]_vars

\* the places in the service's list of the titles that pass the filter: more
\* than 4 characters, all of them letters
Passing ==
    {i \in 1..Len(searches.titles) :
        /\ Len(searches.titles[i]) > 4
        /\ \A k \in 1..Len(searches.titles[i]) : searches.titles[i][k] \in Letters}

\* what get_trends returned is the static list when the call raised or no
\* title passes, and else the first five passing titles in the list's order
TrendsAsListed ==
    /\ trends # <<>>
    /\ IF searches.raised # "none" \/ Passing = {}
       THEN trends = << <<"A","I">>, <<"C","l","i","m","a","t","e">>,
                        <<"H","e","a","l","t","h","c","a","r","e">> >>
       ELSE /\ Len(trends) <= 5
            /\ Len(trends) = 5 \/ Len(trends) = Cardinality(Passing)
            /\ \A k \in 1..Len(trends) :
                  \E i \in Passing :
                     /\ Cardinality({j \in Passing : j <= i}) = k
                     /\ trends[k] = searches.titles[i]

\* C13 as stated: get_trends never raises, and returns the static list
\* whenever the upstream call raises or no title passes the filter, and
\* otherwise at most 5 titles in source order.
C13_NeverRaises ==
    /\ pc # "raised"
    /\ pc = "got_trends" => TrendsAsListed

\* C13: get_trends raises only when the upstream call is interrupted by a
\* KeyboardInterrupt; on every other answer it returns, never an empty list:
\* the static list when the call raised an Exception or no title passes the
\* filter, and otherwise at most 5 passing titles in source order.
C13_RaisesOnlyInterrupt ==
    /\ pc = "raised" => searches.raised = "KeyboardInterrupt"
    /\ pc # "get_trends" /\ searches.raised # "KeyboardInterrupt" =>
          pc = "got_trends" /\ TrendsAsListed

\* six titles pass, five are returned
C13_Witness ==
    /\ pc = "got_trends"
    /\ Cardinality(Passing) = 6
    /\ Len(trends) = 5

\* a backend's answer is a success: status 200 and a JSON list whose first
\* element has a string under generated_text
Successful(r) ==
    /\ r.raised = "none"
    /\ r.status = 200
    /\ r.body.form = "list"
    /\ Len(r.body.items) > 0
    /\ r.body.items[1].field = "str"

\* C14: within one call of generate no backend is sent two requests, and a
\* request answered successfully is the last one: generate has returned that
\* answer's text (stripped), and the backends left in the order got nothing.
C14_OneRequestEach ==
    /\ \A i, j \in 1..Len(requested) : i # j => requested[i] # requested[j]
    /\ \A i \in 1..Len(outcomes) :
          outcomes[i] = "returned" => i = Len(outcomes) /\ pc = "generated"
    /\ (Len(outcomes) > 0 /\ Successful(last_response)) =>
          /\ outcomes[Len(outcomes)] = "returned"
          /\ pc = "generated"
          /\ raw_content = Some(Strip(last_response.body.items[1].text))

\* the second backend asked answers with a text after the first failed, and
\* the third is never asked
C14_Witness ==
    /\ pc = "generated"
    /\ Len(requested) = 2
    /\ outcomes = <<"failed", "returned">>
    /\ Successful(last_response)
    /\ raw_content # None
    /\ Len(raw_content[1]) > 0

\* C15: a create_tweet call that raises anything but TooManyRequests or
\* Forbidden is the last submission of the run, and nothing is slept after
\* it; every submission after the first directly follows a rate-limit answer.
C15_OtherErrorsEndPosting ==
    /\ \A i \in 1..Len(submissions) :
          submissions[i].kind \in {"Exception", "KeyboardInterrupt"} =>
             /\ i = Len(submissions)
             /\ pc = "exited"
             /\ post_result = IF submissions[i].kind = "Exception"
                              THEN "failed" ELSE "interrupted"
             /\ Len(sleeps) = i - 1
             /\ clock = submissions[i].at
    /\ \A i \in 2..Len(submissions) : submissions[i - 1].kind = "TooManyRequests"

\* the second submission, made after a rate-limit answer and its sleep, fails
\* with another exception and is the last
C15_Witness ==
    /\ pc = "exited"
    /\ Len(submissions) = 2
    /\ submissions[1].kind = "TooManyRequests"
    /\ submissions[2].kind = "Exception"
    /\ Len(sleeps) = 1
    /\ post_result = "failed"

\* s ends with t
EndsWith(s, t) ==
    Len(t) <= Len(s) /\ SubSeq(s, Len(s) - Len(t) + 1, Len(s)) = t

\* the capped hashtag list of the call as the claim describes it: the
\* canonical hashtag, the canonical hashtag with the year, then the first
\* token of the cleaned text beginning with "#" that is neither of them
CappedList ==
    LET canon == <<"#">> \o NoSpaces(selected_trend)
        dated == canon \o <<"2","0","2","6">>
        found == HashTokens(Cleaned(raw_content[1]))
        fresh == SelectSeq(found, LAMBDA w : w # canon /\ w # dated)
    IN  IF fresh = <<>> THEN <<canon, dated>> ELSE <<canon, dated, fresh[1]>>

\* C16 as stated: for every raw text and trend the text format_tweet returns
\* ends with the capped hashtag list, joined by spaces.
C16_EndsWithHashtagList ==
    pc = "formatted" => EndsWith(tweet_text, Join(CappedList, <<" ">>))

\* C16: when the assembled text is at most 280 characters long, the text
\* format_tweet returns ends with the capped hashtag list joined by spaces and
\* passed through the character filter, set off from the body by a space.
C16_EndsWithFilteredList ==
    pc = "formatted" =>
        \A a \in {AssembledNow} :
           Len(a) <= 280 =>
              \A tail \in {SafeChars(Join(CappedList, <<" ">>))} :
                 /\ EndsWith(tweet_text, tail)
                 /\ \/ Len(tweet_text) = Len(tail)
                    \/ tweet_text[Len(tweet_text) - Len(tail)] = " "

\* a hashtag of the text follows the two canonical ones at the end, after a
\* body that is not empty
C16_Witness ==
    /\ pc = "formatted"
    /\ Len(CappedList) = 3
    /\ EndsWith(tweet_text, <<" ","#","S","p","a","c","e","X"," ","#","S","p","a","c",
                              "e","X","2","0","2","6"," ","#","a","i">>)

\* the submissions of the run that created a post
Created == {i \in 1..Len(submissions) : submissions[i].kind = "created"}

\* C17: a run creates at most one post: main calls post_tweet at most once,
\* on the fallback branch when generate gave nothing and on the formatted
\* branch otherwise, and a submission that created a post is the last one.
C17_AtMostOnePost ==
    /\ Cardinality(Created) <= 1
    /\ post_calls <= 1
    /\ post_calls = 0 => branch = "none" /\ submissions = <<>>
    /\ post_calls = 1 =>
          branch = IF Falsy(raw_content) THEN "fallback" ELSE "formatted"
    /\ \A i \in Created :
          i = Len(submissions) /\ pc = "exited" /\ post_result = "posted"

\* on the fallback branch a post is created at the second submission, after
\* a rate-limit answer, and the run ends
C17_Witness ==
    /\ pc = "exited"
    /\ branch = "fallback"
    /\ post_calls = 1
    /\ Len(submissions) = 2
    /\ Created = {2}

====
